---- MODULE Spec2Model ----
(***************************************************************************)
(* A model of search/django/utils.py: the thread-local indexing gate        *)
(* (indexing_is_enabled, _enable, _disable, DisableIndexing,                *)
(* EnableIndexing), the rank helpers (get_ascii_string_rank, get_rank),     *)
(* get_uid, and the queryset filter translation                             *)
(* (get_filters_from_queryset, build_lookup, filters_to_search_query).      *)
(*                                                                          *)
(* Python values are modelled as follows.  A string that the code inspects  *)
(* character by character is a sequence (of ordinals for the rank encoder,  *)
(* of one-character strings elsewhere).  An attribute that may be missing   *)
(* (hasattr / getattr with a default) is a sequence of length 0 or 1.       *)
(* Objects and dicts are records with a "kind" field telling the Python     *)
(* type.  A raised exception is a record of kind "raise".                   *)
(***************************************************************************)
EXTENDS Integers, Sequences, FiniteSets, TLC

VARIABLES
    default,         \* settings.SEARCH_INDEXING_ENABLED_BY_DEFAULT
    status,          \* status (threading.local): per thread, the _is_enabled attribute
    previous_state,  \* per helper instance, the previous_state attribute (shared by all threads)
    blocks,          \* per thread, the helper instances whose with block is open, innermost last
    lastRead,        \* the last indexing_is_enabled() call: <<thread, returned value>>
    soloStatus,      \* history: the thread's flag had it run its own operations alone
    soloPrevious,    \* history: the helpers' previous_state had the thread run alone
    soloRead,        \* history: what the last read would have returned had the thread run alone
    entryState,      \* history: per thread and open block, indexing_is_enabled() just before it was
                     \* entered, and whether the block's body has run no gate operation so far
    nest,            \* history: the double entry of a fresh disable_indexing
    args,            \* the arguments of the function under call
    ret,             \* what it returned (or raised)
    pc               \* "idle" (gate runs), "call" before the function ran, "done" after

vars == <<default, status, previous_state, blocks, lastRead,
          soloStatus, soloPrevious, soloRead, entryState, nest, args, ret, pc>>

(***************************************************************************)
(* Bounds of the model.                                                     *)
(***************************************************************************)
NumThreads == 2
MaxDepth == 2

Threads == 1..NumThreads
Helpers == {"disable_indexing", "enable_indexing"}

None == [kind |-> "None"]
Raise(e) == [kind |-> "raise", exc |-> e]

(***************************************************************************)
(* The indexing gate.                                                       *)
(***************************************************************************)

\* getattr(status, "_is_enabled", default) on one thread's attribute slot
indexing_is_enabled(slot) == IF slot = <<>> THEN default ELSE slot[1]

\* status._is_enabled = False / True
_disable == <<FALSE>>
_enable == <<TRUE>>

\* the value the helper forces on entry or call: DisableIndexing calls
\* _disable(), EnableIndexing calls _enable()
Target(h) == IF h = "disable_indexing" THEN _disable ELSE _enable

\* __enter__: if not hasattr(self, "previous_state"): self.previous_state = indexing_is_enabled()
EnterAlwaysCaptures(prev, slot) == <<indexing_is_enabled(slot)>>
EnterCapture(prev, slot) ==
    IF prev = <<>> THEN <<indexing_is_enabled(slot)>> ELSE prev

\* __call__: self.previous_state = indexing_is_enabled()
CallCapture(prev, slot) == <<indexing_is_enabled(slot)>>

\* __exit__: _enable() if self.previous_state is True else _disable()
ExitRestore(prev) == IF prev = <<TRUE>> THEN _enable ELSE _disable

Top(s) == s[Len(s)]
Pop(s) == SubSeq(s, 1, Len(s) - 1)

\* `with helper:` entered by thread t (DisableIndexing.__enter__ / EnableIndexing.__enter__)
Enter(t, h) ==
    /\ pc = "idle"
    /\ Len(blocks[t]) < MaxDepth
    /\ previous_state' = [previous_state EXCEPT ![h] = EnterCapture(@, status[t])]
    /\ status' = [status EXCEPT ![t] = Target(h)]
    /\ blocks' = [blocks EXCEPT ![t] = Append(@, h)]
    /\ UNCHANGED <<default, lastRead, args, ret, pc>>

\* the innermost open with block of thread t is left (__exit__)
Exit(t) ==
    /\ pc = "idle"
    /\ blocks[t] # <<>>
    /\ status' = [status EXCEPT ![t] = ExitRestore(previous_state[Top(blocks[t])])]
    /\ blocks' = [blocks EXCEPT ![t] = Pop(@)]
    /\ UNCHANGED <<default, previous_state, lastRead, args, ret, pc>>

\* helper() as a one-shot call by thread t (__call__)
Call(t, h) ==
    /\ pc = "idle"
    /\ previous_state' = [previous_state EXCEPT ![h] = CallCapture(@, status[t])]
    /\ status' = [status EXCEPT ![t] = Target(h)]
    /\ UNCHANGED <<default, blocks, lastRead, args, ret, pc>>

\* _disable() or _enable() called directly by thread t
Set(t, v) ==
    /\ pc = "idle"
    /\ v \in {_disable, _enable}
    /\ status' = [status EXCEPT ![t] = v]
    /\ UNCHANGED <<default, previous_state, blocks, lastRead, args, ret, pc>>

\* thread t calls indexing_is_enabled()
Read(t) ==
    /\ pc = "idle"
    /\ lastRead' = <<t, indexing_is_enabled(status[t])>>
    /\ UNCHANGED <<default, status, previous_state, blocks, args, ret, pc>>

(***************************************************************************)
(* History variables.  The solo* variables replay each thread's own         *)
(* operations on a gate nobody else uses; entryState and nest remember      *)
(* what the flag was when a block was entered.                              *)
(***************************************************************************)
SoloEnter(t, h) ==
    /\ soloPrevious' = [soloPrevious EXCEPT ![t][h] = EnterCapture(@, soloStatus[t])]
    /\ soloStatus' = [soloStatus EXCEPT ![t] = Target(h)]
    /\ UNCHANGED soloRead

SoloExit(t) ==
    /\ soloStatus' = [soloStatus EXCEPT
                        ![t] = ExitRestore(soloPrevious[t][Top(blocks[t])])]
    /\ UNCHANGED <<soloPrevious, soloRead>>

SoloCall(t, h) ==
    /\ soloPrevious' = [soloPrevious EXCEPT ![t][h] = CallCapture(@, soloStatus[t])]
    /\ soloStatus' = [soloStatus EXCEPT ![t] = Target(h)]
    /\ UNCHANGED soloRead

SoloRead(t) ==
    /\ soloRead' = <<indexing_is_enabled(soloStatus[t])>>
    /\ UNCHANGED <<soloStatus, soloPrevious>>

NestIdle == [phase |-> "idle", val |-> FALSE, oneshot |-> FALSE, after |-> FALSE]

\* the open blocks of a thread, their bodies marked as having run an operation
Touched(s) == [i \in 1..Len(s) |-> [s[i] EXCEPT !.quiet = FALSE]]

\* the first two entries of the fresh disable_indexing instance, and its exits
NestEnter(t, h) ==
    /\ entryState' = [entryState EXCEPT ![t] =
            Append(Touched(@), [flag |-> indexing_is_enabled(status[t]), quiet |-> TRUE])]
    /\ nest' = IF h # "disable_indexing" THEN nest
               ELSE IF nest.phase = "idle"
                    THEN IF previous_state[h] = <<>>
                         THEN [nest EXCEPT !.phase = "in1",
                                           !.val = indexing_is_enabled(status[t])]
                         ELSE [nest EXCEPT !.phase = "void"]
               ELSE IF nest.phase = "in1" THEN [nest EXCEPT !.phase = "in2"]
               ELSE nest

NestExit(t) ==
    /\ entryState' = [entryState EXCEPT ![t] = Touched(Pop(@))]
    /\ nest' = IF Top(blocks[t]) # "disable_indexing" THEN nest
               ELSE IF nest.phase = "in1" THEN [nest EXCEPT !.phase = "void"]
               ELSE IF nest.phase = "in2" THEN [nest EXCEPT !.phase = "out1"]
               ELSE IF nest.phase = "out1"
                    THEN [nest EXCEPT !.phase = "out2",
                                      !.after = indexing_is_enabled(status'[t])]
               ELSE nest

NestCall(t, h) ==
    /\ nest' = IF h # "disable_indexing" THEN nest
               ELSE IF nest.phase \in {"idle", "in1"} THEN [nest EXCEPT !.phase = "void"]
               ELSE IF nest.phase \in {"in2", "out1"} THEN [nest EXCEPT !.oneshot = TRUE]
               ELSE nest
    /\ entryState' = [entryState EXCEPT ![t] = Touched(@)]

NestSet(t) ==
    /\ entryState' = [entryState EXCEPT ![t] = Touched(@)]
    /\ UNCHANGED nest

soloVars == <<soloStatus, soloPrevious, soloRead>>
nestVars == <<entryState, nest>>

InitGate ==
    /\ default \in BOOLEAN
    /\ status = [t \in Threads |-> <<>>]
    /\ previous_state = [h \in Helpers |-> <<>>]
    /\ blocks = [t \in Threads |-> <<>>]
    /\ lastRead = <<>>
    /\ soloStatus = [t \in Threads |-> <<>>]
    /\ soloPrevious = [t \in Threads |-> [h \in Helpers |-> <<>>]]
    /\ soloRead = <<>>
    /\ entryState = [t \in Threads |-> <<>>]
    /\ nest = NestIdle
    /\ args = None /\ ret = None /\ pc = "idle"

\* the helpers and indexing_is_enabled used by several threads, each thread
\* replayed alone in the solo* variables
NextGate ==
    \E t \in Threads :
        \/ \E h \in Helpers : Enter(t, h) /\ SoloEnter(t, h) /\ UNCHANGED nestVars
        \/ Exit(t) /\ SoloExit(t) /\ UNCHANGED nestVars
        \/ \E h \in Helpers : Call(t, h) /\ SoloCall(t, h) /\ UNCHANGED nestVars
        \/ Read(t) /\ SoloRead(t) /\ UNCHANGED nestVars

SpecGate == InitGate /\ [][NextGate]_vars

\* the whole gate, _disable and _enable included, used by one thread only
NextSingle ==
    \/ \E h \in Helpers : Enter(1, h) /\ NestEnter(1, h) /\ UNCHANGED soloVars
    \/ Exit(1) /\ NestExit(1) /\ UNCHANGED soloVars
    \/ \E h \in Helpers : Call(1, h) /\ NestCall(1, h) /\ UNCHANGED soloVars
    \/ \E v \in {_disable, _enable} : Set(1, v) /\ NestSet(1) /\ UNCHANGED soloVars
    \/ Read(1) /\ UNCHANGED <<soloVars, nestVars>>

SpecSingle == InitGate /\ [][NextSingle]_vars

\* the gate left alone while a function of the module is under call
GateUnused ==
    /\ default = TRUE
    /\ status = [t \in Threads |-> <<>>]
    /\ previous_state = [h \in Helpers |-> <<>>]
    /\ blocks = [t \in Threads |-> <<>>]
    /\ lastRead = <<>>
    /\ soloStatus = [t \in Threads |-> <<>>]
    /\ soloPrevious = [t \in Threads |-> [h \in Helpers |-> <<>>]]
    /\ soloRead = <<>>
    /\ entryState = [t \in Threads |-> <<>>]
    /\ nest = NestIdle

gateVars == <<default, status, previous_state, blocks, lastRead,
              soloStatus, soloPrevious, soloRead, entryState, nest>>

\* the non-empty sequences over S of length at most n
SeqsUpTo(S, n) == UNION {[1..k -> S] : k \in 1..n}

(***************************************************************************)
(* filters_to_search_query: the canonical filter compiled into the search   *)
(* query's _gathered_q.  A canonical filter is a dict {connector,           *)
(* children}; a child is a (field, lookup, value) tuple or another dict.    *)
(***************************************************************************)
MaxFilterDepth == 2
MaxChildren == 2

Fields == {"a", "b"}
Connectors == {"AND", "OR", "XOR"}

Tuple(f, op, v) == [kind |-> "tuple", f |-> f, op |-> op, v |-> v]
Dict(c, ch) == [kind |-> "dict", connector |-> c, children |-> ch]

FilterLeaves == {Tuple(f, "exact", 1) : f \in Fields}

RECURSIVE FilterNodes(_)
FilterNodes(d) ==
    IF d = 0 THEN FilterLeaves
    ELSE FilterLeaves \cup
         {Dict(c, ch) : c \in Connectors, ch \in SeqsUpTo(FilterNodes(d - 1), MaxChildren)}

\* the filters handed to filters_to_search_query: dicts of bounded depth
Filters ==
    {Dict(c, ch) : c \in Connectors, ch \in SeqsUpTo(FilterNodes(MaxFilterDepth - 1), MaxChildren)}

\* Q(**{"{}__{}".format(child[0], child[1]): child[2]})
Q(child) == [kind |-> "Q", key |-> <<child.f, child.op>>, v |-> child.v]

\* search.ql.Q: q1 & q2 and q1 | q2; a Q has no other binary connective
Q__and__(x, y) == [kind |-> "Q_AND", l |-> x, r |-> y]
Q__or__(x, y) == [kind |-> "Q_OR", l |-> x, r |-> y]

\* getattr(operator, connector.lower() + '_', 'and_')(q_objects, q): operator.and_
\* and operator.or_ exist; for any other name getattr yields the string 'and_',
\* and calling a string raises TypeError
operator_func(connector, x, y) ==
    IF connector = "AND" THEN Q__and__(x, y)
    ELSE IF connector = "OR" THEN Q__or__(x, y)
    ELSE Raise("TypeError")

\* getattr(search_query.query._gathered_q, '__{}__'.format(connector.lower()))(q_objects)
gathered_combine(connector, gathered, q_objects) ==
    IF connector = "AND" THEN Q__and__(gathered, q_objects)
    ELSE IF connector = "OR" THEN Q__or__(gathered, q_objects)
    ELSE Raise("AttributeError")

SearchQuery(g) == [kind |-> "SearchQuery", _gathered_q |-> g]

\* filters_to_search_query(filters, model, query): query is the search query
\* being built (model.search_query() when none is passed), known by its
\* query._gathered_q
RECURSIVE filters_to_search_query(_, _)
filters_to_search_query(filters, query) ==
    LET connector == filters.connector
        children == filters.children
        \* the for loop from child i on; st holds q_objects, search_query and a raised exception
        RECURSIVE Loop(_, _)
        Loop(i, st) ==
            IF i > Len(children) \/ st.exc # None THEN st
            ELSE IF children[i].kind = "tuple"
                 THEN LET q == Q(children[i])
                          r == IF st.q_objects # None
                               THEN operator_func(connector, st.q_objects, q)
                               ELSE q
                      IN  IF r.kind = "raise"
                          THEN Loop(i + 1, [st EXCEPT !.exc = r])
                          ELSE Loop(i + 1, [st EXCEPT !.q_objects = r])
                 ELSE LET sub == filters_to_search_query(children[i], st.search_query)
                      IN  IF sub.kind = "raise"
                          THEN Loop(i + 1, [st EXCEPT !.exc = sub])
                          ELSE Loop(i + 1, [st EXCEPT !.search_query = sub])
        end == Loop(1, [q_objects |-> None, search_query |-> query, exc |-> None])
    IN  IF end.exc # None THEN end.exc
        ELSE IF end.q_objects = None THEN end.search_query
        ELSE IF end.search_query._gathered_q = None THEN SearchQuery(end.q_objects)
        ELSE LET g == gathered_combine(connector, end.search_query._gathered_q, end.q_objects)
             IN  IF g.kind = "raise" THEN g ELSE SearchQuery(g)

\* the target queries: model.search_query() (nothing gathered yet), or one
\* that already holds a condition
Queries == {SearchQuery(None), SearchQuery(Q(Tuple("z", "exact", 1)))}

InitCompile ==
    /\ GateUnused
    /\ args \in [filters : Filters, query : Queries]
    /\ ret = None
    /\ pc = "call"

CallFiltersToSearchQuery ==
    /\ pc = "call"
    /\ ret' = filters_to_search_query(args.filters, args.query)
    /\ pc' = "done"
    /\ UNCHANGED <<args, gateVars>>

SpecCompile == InitCompile /\ [][CallFiltersToSearchQuery]_vars

\* a document, given by the set of (field__lookup, value) conditions it satisfies
Documents == SUBSET {<<<<f, "exact">>, 1>> : f \in Fields \cup {"z"}}

\* whether the document matches the compiled condition
RECURSIVE QMatches(_, _)
QMatches(q, doc) ==
    IF q = None THEN TRUE
    ELSE IF q.kind = "Q" THEN <<q.key, q.v>> \in doc
    ELSE IF q.kind = "Q_AND" THEN QMatches(q.l, doc) /\ QMatches(q.r, doc)
    ELSE QMatches(q.l, doc) \/ QMatches(q.r, doc)

\* whether the document matches the filter, each group's children combined by
\* the group's own connector
RECURSIVE FilterMatches(_, _)
FilterMatches(f, doc) ==
    IF f.kind = "tuple" THEN <<<<f.f, f.op>>, f.v>> \in doc
    ELSE IF f.connector = "AND"
         THEN \A i \in 1..Len(f.children) : FilterMatches(f.children[i], doc)
         ELSE \E i \in 1..Len(f.children) : FilterMatches(f.children[i], doc)

RECURSIVE ConnectorsOf(_)
ConnectorsOf(f) ==
    IF f.kind = "tuple" THEN {}
    ELSE {f.connector} \cup UNION {ConnectorsOf(f.children[i]) : i \in 1..Len(f.children)}

(***************************************************************************)
(* get_filters_from_queryset and build_lookup: the queryset's where tree    *)
(* (WhereNode objects holding Lookup objects and further WhereNodes)        *)
(* turned into the canonical filter.                                        *)
(***************************************************************************)
MaxNodes == 5

WhereNode(c, ch) == [kind |-> "WhereNode", connector |-> c, children |-> ch]
Lookup(target, name, rhs) ==
    [kind |-> "Lookup", target |-> target, lookup_name |-> name, rhs |-> rhs]
List(items) == [kind |-> "list", items |-> items]
PyInt(n) == [kind |-> "int", n |-> n]

\* the lookups of the model: an exact match, a membership test, a membership
\* test with no candidates, and one whose right-hand side is not iterable
Lookups ==
    { Lookup("a", "exact", PyInt(1)),
      Lookup("b", "in", List(<<PyInt(1), PyInt(2)>>)),
      Lookup("b", "IN", List(<<>>)),
      Lookup("a", "in", PyInt(1)) }

\* the where trees of exactly n nodes, and the non-empty sequences of trees
\* of n nodes in all
RECURSIVE WhereTrees(_), WhereForests(_)
WhereTrees(n) ==
    IF n = 1 THEN Lookups
    ELSE {WhereNode(c, ch) : c \in {"AND", "OR"}, ch \in WhereForests(n - 1)}
WhereForests(n) ==
    {<<t>> : t \in WhereTrees(n)} \cup
    UNION {{<<t>> \o f : t \in WhereTrees(k), f \in WhereForests(n - k)} : k \in 1..(n - 1)}

\* queryset.query.where: a WhereNode with at least one child
Wheres == UNION {WhereTrees(n) : n \in 2..MaxNodes}

\* unicode.lower() on a lookup name
Lower(name) == IF name = "IN" THEN "in" ELSE name

\* build_lookup(node)
build_lookup(node) ==
    IF Lower(node.lookup_name) = "in"
    THEN IF node.rhs.kind = "list"
         THEN Dict("OR", [i \in 1..Len(node.rhs.items) |->
                              Tuple(node.target, "exact", node.rhs.items[i])])
         ELSE Raise("TypeError")
    ELSE Tuple(node.target, node.lookup_name, node.rhs)

\* if getattr(node, 'connector', None) == 'AND' and len(node.children) == 1:
\*     node = node.children[0]
NoCollapse(node) == node
Collapse(node) ==
    IF node.kind = "WhereNode" /\ node.connector = "AND" /\ Len(node.children) = 1
    THEN node.children[1]
    ELSE node

\* the first exception raised among the results, if any
FirstRaise(results) ==
    LET bad == {i \in 1..Len(results) : results[i].kind = "raise"}
    IN  IF bad = {} THEN None
        ELSE results[CHOOSE i \in bad : \A j \in bad : i <= j]

\* get_filters_from_queryset(queryset, where_node); where is queryset.query.where
RECURSIVE get_filters_from_queryset(_, _)
get_filters_from_queryset(where, where_node) ==
    LET \* where_node or queryset.query.where: a node without children is falsy
        w == IF where_node = None THEN where
             ELSE IF where_node.children = <<>> THEN where
             ELSE where_node
        children == [i \in 1..Len(w.children) |->
                        LET node == Collapse(w.children[i])
                        IN  IF node.kind = "Lookup"
                            THEN build_lookup(node)
                            ELSE get_filters_from_queryset(where, node)]
    IN  IF FirstRaise(children) # None THEN FirstRaise(children)
        ELSE Dict(w.connector, children)

InitExtract ==
    /\ GateUnused
    /\ args \in [where : Wheres]
    /\ ret = None
    /\ pc = "call"

CallGetFiltersFromQueryset ==
    /\ pc = "call"
    /\ ret' = get_filters_from_queryset(args.where, None)
    /\ pc' = "done"
    /\ UNCHANGED <<args, gateVars>>

SpecExtract == InitExtract /\ [][CallGetFiltersFromQueryset]_vars

\* the paths (child indices from the root) of the group nodes of a tree
RECURSIVE GroupPaths(_)
GroupPaths(n) ==
    IF n.kind \notin {"WhereNode", "dict"} THEN {}
    ELSE {<<>>} \cup UNION {{<<i>> \o p : p \in GroupPaths(n.children[i])} :
                               i \in 1..Len(n.children)}

RECURSIVE NodeAt(_, _)
NodeAt(n, path) ==
    IF path = <<>> THEN n ELSE NodeAt(n.children[path[1]], Tail(path))

\* the tree with the node at path replaced by new
RECURSIVE ReplaceAt(_, _, _)
ReplaceAt(n, path, new) ==
    IF path = <<>> THEN new
    ELSE [n EXCEPT !.children[path[1]] = ReplaceAt(@, Tail(path), new)]

\* a group with connector AND and exactly one child
SingleAnd(n) ==
    /\ n.kind \in {"WhereNode", "dict"}
    /\ n.connector = "AND"
    /\ Len(n.children) = 1

\* a single-child AND group whose child is again one
ChainedSingleAnd(n) == SingleAnd(n) /\ SingleAnd(n.children[1])

\* below the root, no single-child AND group has a single-child AND group as its child
NoChainBelowRoot(w) ==
    \A p \in GroupPaths(w) \ {<<>>} : ~ChainedSingleAnd(NodeAt(w, p))

\* the lookups of a where tree
RECURSIVE LookupsOf(_)
LookupsOf(n) ==
    IF n.kind = "Lookup" THEN {n}
    ELSE UNION {LookupsOf(n.children[i]) : i \in 1..Len(n.children)}

\* a membership lookup whose value is empty or not iterable
BadMembership(l) ==
    /\ Lower(l.lookup_name) = "in"
    /\ (l.rhs.kind # "list" \/ l.rhs.items = <<>>)

(***************************************************************************)
(* get_ascii_string_rank.  A string is the sequence of its characters'      *)
(* ordinals; the strings are ASCII, which unidecode leaves as they are.     *)
(***************************************************************************)
MaxLen == 3

\* '0', 'A', '[' and 'a': a digit, a capital, a punctuation mark, a small letter
RankChars == {48, 65, 91, 97}
\* the values of max_digits tried: 5, and the default 9
MaxDigitsTried == {5, 9}

RankStrings == UNION {[1..k -> RankChars] : k \in 0..MaxLen}

\* smallest_ord = ord(u"A")
smallest_ord == 65
\* punctuation_ord = smallest_ord - 1
punctuation_ord == smallest_ord - 1
\* offset = smallest_ord - 11
offset == smallest_ord - 11

\* c.isalpha() on an ASCII character
isalpha(c) == c \in 65..90 \/ c \in 97..122

ToUpper(c) == IF c \in 97..122 THEN c - 32 ELSE c

\* get_ord = lambda c: (ord(c) if c.isalpha() else punctuation_ord) - offset
get_ordIgnoringCase(c) == (IF isalpha(c) THEN ToUpper(c) ELSE punctuation_ord) - offset
get_ord(c) == (IF isalpha(c) THEN c ELSE punctuation_ord) - offset

\* str(o): the decimal digits of a natural number
RECURSIVE Str(_)
Str(o) == IF o < 10 THEN <<o>> ELSE Str(o \div 10) \o <<o % 10>>

\* str(o).zfill(2)
zfill2(o) == IF Len(Str(o)) < 2 THEN <<0>> \o Str(o) ELSE Str(o)

\* "".join(joinable)
RECURSIVE Join(_)
Join(ords) == IF ords = <<>> THEN <<>> ELSE zfill2(Head(ords)) \o Join(Tail(ords))

\* int(digits)
RECURSIVE ToInt(_)
ToInt(digits) ==
    IF digits = <<>> THEN 0
    ELSE 10 * ToInt(SubSeq(digits, 1, Len(digits) - 1)) + digits[Len(digits)]

\* s[:n]
Take(s, n) == SubSeq(s, 1, IF Len(s) < n THEN Len(s) ELSE n)

\* get_ascii_string_rank(string, max_digits)
get_ascii_string_rank(string, max_digits) ==
    LET padding == [i \in 1..max_digits |-> punctuation_ord]
        ords == [i \in 1..(Len(string) + max_digits) |-> get_ord((string \o padding)[i])]
    IN  ToInt(Take(Join(ords), max_digits))

InitRank ==
    /\ GateUnused
    /\ args \in [a : RankStrings, b : RankStrings, max_digits : MaxDigitsTried]
    /\ ret = None
    /\ pc = "call"

CallGetAsciiStringRank ==
    /\ pc = "call"
    /\ ret' = [a |-> get_ascii_string_rank(args.a, args.max_digits),
               b |-> get_ascii_string_rank(args.b, args.max_digits)]
    /\ pc' = "done"
    /\ UNCHANGED <<args, gateVars>>

SpecRank == InitRank /\ [][CallGetAsciiStringRank]_vars

\* a < b for Python strings: the first differing character decides, and a
\* proper prefix is smaller
RECURSIVE LexLess(_, _)
LexLess(a, b) ==
    IF b = <<>> THEN FALSE
    ELSE IF a = <<>> THEN TRUE
    ELSE IF Head(a) # Head(b) THEN Head(a) < Head(b)
    ELSE LexLess(Tail(a), Tail(b))

AllLetters(s) == \A i \in 1..Len(s) : isalpha(s[i])

(***************************************************************************)
(* get_rank.  An int is PyInt(n); MAX_RANK - n is kept as the record        *)
(* MAX_RANK_minus(n), since 2 ** 31 is beyond the integers TLC computes     *)
(* with: for the values below 2 ** 30 used here the two never coincide.     *)
(***************************************************************************)
MaxValue == 5

PyStr(s) == [kind |-> "str", s |-> s]
Callable(v) == [kind |-> "callable", returns |-> v]

\* MAX_RANK - rank
MAX_RANK_minus(rank) == [kind |-> "int", max_rank_minus |-> rank.n]

\* ord("-")
Dash == 45
\* "score", "other"
Score == <<115, 99, 111, 114, 101>>
Other == <<111, 116, 104, 101, 114>>

\* what a field or a zero-argument callable yields: ints and strings
RankValues ==
    {PyInt(n) : n \in 0..MaxValue} \cup {PyStr(<<65>>), PyStr(<<97, 91>>)}

\* the instance: it has the attribute score, a field or a method
Instances == [score : RankValues \cup {Callable(v) : v \in RankValues}]

\* the rank argument: None, "", a field or method name with or without "-",
\* a callable, or a number
RankArgs ==
    {None, PyStr(<<>>), PyStr(Score), PyStr(<<Dash>> \o Score),
     PyStr(Other), PyStr(<<Dash>> \o Other), PyInt(7)}
    \cup {Callable(v) : v \in RankValues}

\* bool(rank)
Truthy(x) ==
    IF x = None THEN FALSE
    ELSE IF x.kind = "str" THEN x.s # <<>>
    ELSE IF x.kind = "int" THEN x.n # 0
    ELSE TRUE

\* getattr(instance, name)
GetAttr(instance, name) ==
    IF name = Score THEN instance.score ELSE Raise("AttributeError")

\* if callable(rank): rank = rank()
CallIfCallable(x) == IF x.kind = "callable" THEN x.returns ELSE x

\* if isinstance(rank, basestring): rank = get_ascii_string_rank(rank)
EncodeIfString(x) ==
    IF x.kind = "str" THEN PyInt(get_ascii_string_rank(x.s, 9)) ELSE x

\* return rank if desc else MAX_RANK - rank
OrderedSwapped(desc, rank) == IF desc THEN MAX_RANK_minus(rank) ELSE rank
Ordered(desc, rank) == IF desc THEN rank ELSE MAX_RANK_minus(rank)

\* get_rank(instance, rank)
get_rank(instance, rank) ==
    IF ~Truthy(rank) THEN rank
    ELSE IF rank.kind = "callable"
         THEN Ordered(TRUE, EncodeIfString(rank.returns))
    ELSE IF rank.kind # "str" THEN Raise("AttributeError")
    ELSE LET desc == rank.s[1] = Dash
             name == IF desc THEN Tail(rank.s) ELSE rank.s
             attr == GetAttr(instance, name)
         IN  IF attr.kind = "raise" THEN attr
             ELSE Ordered(desc, EncodeIfString(CallIfCallable(attr)))

InitGetRank ==
    /\ GateUnused
    /\ args \in [instance : Instances, rank : RankArgs]
    /\ ret = None
    /\ pc = "call"

CallGetRank ==
    /\ pc = "call"
    /\ ret' = get_rank(args.instance, args.rank)
    /\ pc' = "done"
    /\ UNCHANGED <<args, gateVars>>

SpecGetRank == InitGetRank /\ [][CallGetRank]_vars

\* the number a field value, a method or a callable stands for
RankNumber(x) == EncodeIfString(CallIfCallable(x))

(***************************************************************************)
(* get_uid.  A string is the sequence of its characters; a class is known   *)
(* by its __name__.                                                         *)
(***************************************************************************)
MaxNameLen == 2
MaxDocumentNameLen == 1

NameChars == {"a", "."}
NameStrings(n) == UNION {[1..k -> NameChars] : k \in 1..n}
\* a class name is an identifier
ClassNames(n) == UNION {[1..k -> {"a"}] : k \in 1..n}

PyClass(name) == [kind |-> "class", name |-> name]

\* a class, or the name of one
ClassOrName(n) == {PyStr(x) : x \in NameStrings(n)} \cup {PyClass(x) : x \in ClassNames(n)}
Triples == [index_name : {PyStr(x) : x \in NameStrings(MaxNameLen)},
            model_class : ClassOrName(MaxNameLen),
            document_class : ClassOrName(MaxDocumentNameLen)]

\* if not isinstance(x, basestring): x = x.__name__
NameOf(x) == IF x.kind # "str" THEN x.name ELSE x.s

\* get_uid(model_class, document_class, index_name)
get_uidWithoutIndex(model_class, document_class, index_name) ==
    NameOf(model_class) \o <<".">> \o NameOf(document_class)
get_uid(model_class, document_class, index_name) ==
    index_name.s \o <<".">> \o NameOf(model_class) \o <<".">> \o NameOf(document_class)

InitUid ==
    /\ GateUnused
    /\ args \in [first : Triples, second : Triples]
    /\ ret = None
    /\ pc = "call"

CallGetUid ==
    /\ pc = "call"
    /\ ret' = [first |-> get_uid(args.first.model_class, args.first.document_class,
                                 args.first.index_name),
               second |-> get_uid(args.second.model_class, args.second.document_class,
                                  args.second.index_name)]
    /\ pc' = "done"
    /\ UNCHANGED <<args, gateVars>>

SpecUid == InitUid /\ [][CallGetUid]_vars

\* the names of a triple, a class taken for its name
Names(t) == <<t.index_name.s, NameOf(t.model_class), NameOf(t.document_class)>>

DotFree(t) == \A i \in 1..3 : \A j \in 1..Len(Names(t)[i]) : Names(t)[i][j] # "."

(***************************************************************************)
(* Claims about the indexing gate.                                          *)
(***************************************************************************)

\* C2: whatever the interleaving of the threads' gate operations, what a
\* thread reads from indexing_is_enabled() is what it would have read had it
\* run its own operations alone.
C2_ThreadsDoNotInterfere ==
    lastRead # <<>> => lastRead[2] = soloRead[1]

\* C3: when a with block of a helper is left, the thread's flag is again
\* what it was immediately before the block was entered, whatever gate
\* operations preceded the block (stated for an outermost block whose body
\* runs no gate operation).
C3_ExitRestoresEntryState ==
    [][(Len(blocks[1]) = 1 /\ blocks'[1] = <<>> /\ entryState[1][1].quiet)
          => indexing_is_enabled(status'[1]) = entryState[1][1].flag]_vars

C1_CompiledEquivalentToFilter ==
    (pc = "done" /\ args.query._gathered_q = None
                 /\ ConnectorsOf(args.filters) \subseteq {"AND", "OR"})
        => /\ ret.kind = "SearchQuery"
           /\ \A doc \in Documents :
                  QMatches(ret._gathered_q, doc) = FilterMatches(args.filters, doc)

\* C6: a filter in which some group's connector is neither AND nor OR makes
\* the call fail, whatever the shape of the filter and the target query.
C6_UnknownConnectorRaises ==
    (pc = "done" /\ ~(ConnectorsOf(args.filters) \subseteq {"AND", "OR"}))
        => ret.kind = "raise"

(***************************************************************************)
(* Claims about get_filters_from_queryset and build_lookup.                 *)
(***************************************************************************)

\* C5: a membership lookup whose value is empty or not iterable makes the
\* extraction fail, and a filter that is returned has no group without
\* children.
C5_BadMembershipRaises ==
    pc = "done" =>
        /\ (\E l \in LookupsOf(args.where) : BadMembership(l)) => ret.kind = "raise"
        /\ \A p \in GroupPaths(ret) : NodeAt(ret, p).children # <<>>

\* C10 as stated: replacing any single-child AND group of the where tree, at
\* the root or below, by its child leaves the extracted filter unchanged, and
\* the extracted filter has no AND group with exactly one child.
C10_SingleAndExtractsAsChild ==
    pc = "done" =>
        /\ \A p \in GroupPaths(args.where) :
              (/\ SingleAnd(NodeAt(args.where, p))
               /\ ReplaceAt(args.where, p, NodeAt(args.where, p).children[1]).kind
                      = "WhereNode")
              => get_filters_from_queryset(
                     ReplaceAt(args.where, p, NodeAt(args.where, p).children[1]), None)
                 = ret
        /\ \A p \in GroupPaths(ret) : ~SingleAnd(NodeAt(ret, p))

\* C10 as amended: when the where tree has, below its root, no single-child
\* AND group whose child is again a single-child AND group, replacing any
\* single-child AND group below the root by its child leaves the extracted
\* filter unchanged, and the extracted filter has no AND group with exactly
\* one child below its root.
C10_InnerSingleAndExtractsAsChild ==
    (pc = "done" /\ NoChainBelowRoot(args.where)) =>
        /\ \A p \in GroupPaths(args.where) \ {<<>>} :
              SingleAnd(NodeAt(args.where, p))
              => get_filters_from_queryset(
                     ReplaceAt(args.where, p, NodeAt(args.where, p).children[1]), None)
                 = ret
        /\ \A p \in GroupPaths(ret) \ {<<>>} : ~SingleAnd(NodeAt(ret, p))

\* C10's case: a filter was extracted from a where tree that holds, below its
\* root, a single-child AND group around a group of two lookups.
C10_Witness ==
    /\ pc = "done"
    /\ ret.kind = "dict"
    /\ NoChainBelowRoot(args.where)
    /\ \E p \in GroupPaths(args.where) \ {<<>>} :
          /\ SingleAnd(NodeAt(args.where, p))
          /\ NodeAt(args.where, p).children[1].kind = "WhereNode"
          /\ Len(NodeAt(args.where, p).children[1].children) = 2

(***************************************************************************)
(* Claims about the rank helpers and get_uid.                               *)
(***************************************************************************)

C4_DashReturnsMaxRankMinusValue ==
    (pc = "done" /\ Truthy(args.rank) /\ args.rank.kind # "int") =>
        IF args.rank.kind = "callable" THEN ret = RankNumber(args.rank)
        ELSE IF args.rank.s = <<Dash>> \o Score
             THEN ret = MAX_RANK_minus(RankNumber(args.instance.score))
        ELSE IF args.rank.s = Score
             THEN ret = RankNumber(args.instance.score)
        ELSE ret.kind = "raise"

\* C4 as amended: a leading "-" on the field or method name is stripped and
\* the rank comes back unchanged (get_rank(instance, "-score") with score 5
\* is 5); a name without "-" comes back as MAX_RANK - value; a callable's
\* rank comes back unchanged.
C4_DashReturnsValue ==
    (pc = "done" /\ Truthy(args.rank) /\ args.rank.kind # "int") =>
        IF args.rank.kind = "callable" THEN ret = RankNumber(args.rank)
        ELSE IF args.rank.s = <<Dash>> \o Score
             THEN ret = RankNumber(args.instance.score)
        ELSE IF args.rank.s = Score
             THEN ret = MAX_RANK_minus(RankNumber(args.instance.score))
        ELSE ret.kind = "raise"

\* C4's case: get_rank(instance, "-score") was called with instance.score == 5.
C4_Witness ==
    /\ pc = "done"
    /\ args.rank = PyStr(<<Dash>> \o Score)
    /\ args.instance.score = PyInt(5)
    /\ ret = PyInt(5)

\* C8 as stated: two distinct triples (index_name, model_class,
\* document_class), each of the last two a class or a name, get different
\* uids, and the same triple gets the same uid.
C8_UidInjective ==
    pc = "done" => (ret.first = ret.second <=> args.first = args.second)

\* C8 as amended: for triples whose names hold no ".", a class being taken
\* for its __name__, two triples get the same uid exactly when their names
\* are the same.
C8_UidInjectiveOnDotFreeNames ==
    (pc = "done" /\ DotFree(args.first) /\ DotFree(args.second))
        => (ret.first = ret.second <=> Names(args.first) = Names(args.second))

\* C8's case: two triples of dot-free names that differ in the index name
\* only, and got different uids.
C8_Witness ==
    /\ pc = "done"
    /\ DotFree(args.first) /\ DotFree(args.second)
    /\ args.first.index_name # args.second.index_name
    /\ args.first.model_class = args.second.model_class
    /\ args.first.document_class = args.second.document_class
    /\ ret.first # ret.second

====
